---- MODULE Spec2Model ----
(***************************************************************************)
(* axios-retry: the retry coordinator of src/src/index.ts as a state       *)
(* machine for one logical request on one client.                          *)
(*                                                                         *)
(* Time is a discrete clock `now` (Date.now()).  User supplied callbacks   *)
(* (retryCondition, retryDelay, onRetry, onMaxRetryTimesExceeded,          *)
(* validateResponse) are arbitrary functions: every invocation of a custom *)
(* callback chooses its result nondeterministically; the built-in          *)
(* defaults behave as their code does.                                     *)
(***************************************************************************)
EXTENDS Integers, FiniteSets, Sequences, TLC

VARIABLES
    defaultOptions, \* the client-wide options passed to axiosRetry(client, options)
    override,       \* the caller's per-request 'axios-retry' value, as given
    originalTimeout,\* the timeout the caller gave the request (0: none)
    config,         \* the request descriptor (AxiosRequestConfig)
    now,            \* Date.now()
    pc,             \* position of the logical request
    attempts,       \* physical dispatches to the transport so far
    error,          \* the failure being handled by the response interceptor
    delay,          \* the delay computed by retryDelay for the pending retry
    result,         \* what the caller's promise settled with
    calls,          \* how often each callback was invoked
    hook,           \* the last invocation of onRetry / onMaxRetryTimesExceeded
    verdict,        \* the last result of retryCondition
    hookTime,       \* time spent awaiting asynchronous callbacks
    signal,         \* config.signal: "none" (absent), "idle" or "aborted"
    timer,          \* the retry timer set by handleRetry
    returned,       \* what an exported helper called by the user returned
    interceptors,   \* the client's interceptor handlers (null once ejected)
    heap,           \* two requests on one client: the objects, by reference
    requests,       \* two requests on one client: each request's own record
    axiosDefaults   \* axiosInstance.defaults: the client's own agents

vars == <<defaultOptions, override, originalTimeout, config, now, pc, attempts, error, delay,
          result, calls, hook, verdict, hookTime, signal, timer, returned, interceptors,
          heap, requests, axiosDefaults>>

----------------------------------------------------------------------------
(* Bounds of the model *)

MaxRetries == 2
MaxTimeout == 3
MaxDur == 1
MaxDelay == 1
MaxHookDur == 1
StartTime == 1
MaxAttempt == 3

----------------------------------------------------------------------------
(* Values *)

Max(a, b) == IF a >= b THEN a ELSE b

NoValue == [id |-> 0, code |-> "none", status |-> 0, method |-> ""]

\* An AxiosError of attempt `id`: `status` 0 means error.response is absent,
\* `code` "" means error.code is absent, `method` is error.config.method and
\* "" means error.config (or its method) is absent.
AxiosError(id, code, status, method) ==
    [id |-> id, code |-> code, status |-> status, method |-> method]

\* An AxiosResponse of attempt `id`.
AxiosResponse(id, status, method) ==
    [id |-> id, code |-> "response", status |-> status, method |-> method]

NoInvocation == [name |-> "none", status |-> "none", retryCount |-> 0, error |-> NoValue]

NoVerdict == [at |-> 0, retryCount |-> 0, value |-> "none"]

\* What a throwing / rejecting user hook replaces the error with.
HookError(name) == [id |-> 0, code |-> name, status |-> 0, method |-> ""]

\* A plain Error put in place of attempt `id`'s failure: no code, no response,
\* no config.
PlainError(id) == [id |-> id, code |-> "", status |-> 0, method |-> ""]

\* An agent object: `id` is its identity, `options` what it was made with.
Agent(id, options) == [id |-> id, options |-> options]

\* The field is not there (undefined).
NoAgent == Agent("undefined", "none")

AgentKeys == {"agent", "httpAgent", "httpsAgent"}

NoAgents == [k \in AgentKeys |-> NoAgent]

\* No retry timer was ever set.
NoTimer == [status |-> "none", due |-> 0]

\* The handlers of a client on which axiosRetry was called once: one request
\* interceptor and one response interceptor.
Registered == [request |-> <<"axios-retry">>, response |-> <<"axios-retry">>]

\* What axiosRetry(client, options) returned: the handlers' places.
IAxiosRetryReturn ==
    [requestInterceptorId |-> Len(Registered.request),
     responseInterceptorId |-> Len(Registered.response)]

\* No exported helper was called.
NoReturn == [fn |-> "none", error |-> NoValue, value |-> FALSE]

----------------------------------------------------------------------------
(* Error classifier *)

\* is-retry-allowed: errors whose code is on its deny list are never retried.
isRetryAllowed(err) == err.code \notin {"ENOTFOUND", "CERT_HAS_EXPIRED"}

CODE_EXCLUDE_LIST == {"ERR_CANCELED", "ECONNABORTED"}

isNetworkError_WithoutExcludeList(err) ==
    IF err.status # 0 THEN FALSE
    ELSE IF err.code = "" THEN FALSE
    ELSE isRetryAllowed(err)

isNetworkError(err) ==
    IF err.status # 0 THEN FALSE
    ELSE IF err.code = "" THEN FALSE
    ELSE IF err.code \in CODE_EXCLUDE_LIST THEN FALSE
    ELSE isRetryAllowed(err)

SAFE_HTTP_METHODS == {"get", "head", "options"}

IDEMPOTENT_HTTP_METHODS == SAFE_HTTP_METHODS \cup {"put", "delete"}

isRetryableError_IgnoringCode(err) ==
    \/ err.status = 0
    \/ err.status = 429
    \/ (err.status >= 500 /\ err.status <= 599)

isRetryableError_Without429(err) ==
    /\ err.code # "ECONNABORTED"
    /\ \/ err.status = 0
       \/ (err.status >= 500 /\ err.status <= 599)

isRetryableError(err) ==
    /\ err.code # "ECONNABORTED"
    /\ \/ err.status = 0
       \/ err.status = 429
       \/ (err.status >= 500 /\ err.status <= 599)

isSafeRequestError_AnyCase(err) ==
    IF err.method = "" THEN FALSE
    ELSE isRetryableError(err) /\ err.method \in SAFE_HTTP_METHODS \cup {"GET"}

isSafeRequestError(err) ==
    IF err.method = "" THEN FALSE
    ELSE isRetryableError(err) /\ err.method \in SAFE_HTTP_METHODS

isIdempotentRequestError_WithPatch(err) ==
    IF err.method = "" THEN FALSE
    ELSE isRetryableError(err) /\ err.method \in IDEMPOTENT_HTTP_METHODS \cup {"patch"}

isIdempotentRequestError(err) ==
    IF err.method = "" THEN FALSE
    ELSE isRetryableError(err) /\ err.method \in IDEMPOTENT_HTTP_METHODS

isNetworkOrIdempotentRequestError(err) ==
    isNetworkError(err) \/ isIdempotentRequestError(err)

----------------------------------------------------------------------------
(* Delay strategy *)

\* A retry-after header: `kind` "seconds" is a numeric string of `value`
\* seconds, "date" a date string of timestamp `value`, "invalid" a string
\* that is neither, "empty" the empty string.
Header(kind, value) == [kind |-> kind, value |-> value]

\* error.response.headers['retry-after'] = header
WithRetryAfter(err, header) ==
    [k \in DOMAIN err \cup {"retryAfter"} |->
        IF k = "retryAfter" THEN header ELSE err[k]]

\* Number(retryAfterHeader) || 0
HeaderSeconds(header) == IF header.kind = "seconds" THEN header.value ELSE 0

\* new Date(retryAfterHeader).valueOf() || 0: a string that is no date is NaN,
\* and a numeric string read as a date is a moment long past.
HeaderDate(header) == IF header.kind = "date" THEN header.value ELSE 0

retryAfter_InSeconds(err) ==
    IF "retryAfter" \notin DOMAIN err \/ err.retryAfter.kind = "empty" THEN 0
    ELSE Max(0, HeaderSeconds(err.retryAfter))

\* Milliseconds to wait according to the failure's retry-after header, at `now`.
retryAfter(err) ==
    IF "retryAfter" \notin DOMAIN err \/ err.retryAfter.kind = "empty" THEN 0
    ELSE LET seconds == HeaderSeconds(err.retryAfter) * 1000
             retryAfterMs == IF seconds = 0
                             THEN HeaderDate(err.retryAfter) - now
                             ELSE seconds
         IN  Max(0, retryAfterMs)

noDelay_Linear(retryCount, err) == Max(retryCount * 100, retryAfter(err))

noDelay(retryCount, err) == Max(0, retryAfter(err))

\* delayFactor = 100
DefaultDelayFactor == 100

\* A delayFactor argument: -1 stands for an argument not given.
Factor(delayFactor) == IF delayFactor = -1 THEN DefaultDelayFactor ELSE delayFactor

exponentialDelay_FullJitter(retryCount, err, delayFactor, random) ==
    LET d == Max(2 ^ retryCount * Factor(delayFactor), retryAfter(err))
    IN  d + (d * random) \div 100

\* `random` is Math.random() in hundredths.
exponentialDelay(retryCount, err, delayFactor, random) ==
    LET calculatedDelay == 2 ^ retryCount * Factor(delayFactor)
        d == Max(calculatedDelay, retryAfter(err))
        randomSum == (d * 2 * random) \div 1000
    IN  d + randomSum

linearDelay_ZeroBased(delayFactor, retryCount, err) ==
    Max((retryCount - 1) * Factor(delayFactor), retryAfter(err))

\* linearDelay(delayFactor)(retryCount, error)
linearDelay(delayFactor, retryCount, err) ==
    Max(retryCount * Factor(delayFactor), retryAfter(err))

----------------------------------------------------------------------------
(* Options *)

OptionKeys == {"retries", "retryCondition", "retryDelay", "shouldResetTimeout",
               "onRetry", "onMaxRetryTimesExceeded", "validateResponse"}

\* The callbacks among the options.
CallbackKeys == OptionKeys \ {"retries", "shouldResetTimeout"}

DEFAULT_OPTIONS ==
    [retries |-> 3,
     retryCondition |-> "isNetworkOrIdempotentRequestError",
     retryDelay |-> "noDelay",
     shouldResetTimeout |-> FALSE,
     onRetry |-> "noop",
     onMaxRetryTimesExceeded |-> "noop",
     validateResponse |-> "null"]

\* JavaScript object spread { ...a, ...b }: b's own keys win.
Spread(a, b) ==
    [k \in DOMAIN a \cup DOMAIN b |-> IF k \in DOMAIN b THEN b[k] ELSE a[k]]

getRequestOptions_ClientWins(cfg, defaults) ==
    Spread(Spread(DEFAULT_OPTIONS, cfg.axiosRetry), defaults)

getRequestOptions(cfg, defaults) ==
    Spread(Spread(DEFAULT_OPTIONS, defaults), cfg.axiosRetry)

setCurrentState_KeepingFirst(cfg, defaults, resetLastRequestTime, t) ==
    LET currentState == getRequestOptions(cfg, defaults)
        retryCount == IF "retryCount" \in DOMAIN currentState
                      THEN currentState.retryCount ELSE 0
        lastRequestTime ==
            IF \/ "lastRequestTime" \notin DOMAIN currentState
               \/ currentState.lastRequestTime = 0
               \/ (resetLastRequestTime /\ currentState.shouldResetTimeout)
            THEN t ELSE currentState.lastRequestTime
    IN  Spread(currentState,
               [retryCount |-> retryCount, lastRequestTime |-> lastRequestTime])

\* Returns the new currentState, which the code also stores in config[namespace].
setCurrentState(cfg, defaults, resetLastRequestTime, t) ==
    LET currentState == getRequestOptions(cfg, defaults)
        retryCount == IF "retryCount" \in DOMAIN currentState
                      THEN currentState.retryCount ELSE 0
        lastRequestTime ==
            IF \/ "lastRequestTime" \notin DOMAIN currentState
               \/ currentState.lastRequestTime = 0
               \/ resetLastRequestTime
            THEN t ELSE currentState.lastRequestTime
    IN  Spread(currentState,
               [retryCount |-> retryCount, lastRequestTime |-> lastRequestTime])

----------------------------------------------------------------------------
(* Inputs: the options a user gives, and where *)

NoOptions == [k \in {} |-> 0]

\* The options a user gives: `retries` (-1: not given), `reset` ("absent":
\* shouldResetTimeout not given) and the callbacks in `cbs`, each the user
\* function named `fn`.
Given(retries, reset, cbs, fn) ==
    [k \in (IF retries = -1 THEN {} ELSE {"retries"})
           \cup (IF reset = "absent" THEN {} ELSE {"shouldResetTimeout"})
           \cup cbs |->
        IF k = "retries" THEN retries
        ELSE IF k = "shouldResetTimeout" THEN reset = "true"
        ELSE fn]

\* Other values for the same keys: what a client-wide configuration holds
\* when the request overrides every one of them.
Shadowed(retries, reset, cbs) ==
    Given(IF retries = -1 THEN -1 ELSE (retries + 1) % (MaxRetries + 1),
          IF reset = "absent" THEN "absent"
          ELSE IF reset = "true" THEN "false" ELSE "true",
          cbs, "clientFn")

\* The sets of callbacks a user supplies.
CallbackSets ==
    {{}, {"retryCondition"}, {"retryCondition", "retryDelay"},
     {"onRetry", "onMaxRetryTimesExceeded"}, {"validateResponse", "retryCondition"},
     CallbackKeys}

\* Where the options are given: client-wide, per request, or client-wide
\* with every one of them overridden per request.
Layers == {"client", "request", "both"}

\* A user who supplies every callback does so in the layered way; a
\* client-wide validateResponse may also be switched off per request
\* ("nulled": the request gives validateResponse: null and nothing else).
LayersOf(cbs) ==
    IF cbs = CallbackKeys THEN {"both"}
    ELSE IF "validateResponse" \in cbs THEN Layers \cup {"nulled"}
    ELSE Layers

\* The options given client-wide.
ClientOptions(retries, reset, cbs, layer) ==
    IF layer \in {"client", "nulled"} THEN Given(retries, reset, cbs, "clientFn")
    ELSE IF layer = "request" THEN NoOptions
    ELSE Shadowed(retries, reset, cbs)

\* The options given with the request.
RequestOptions(retries, reset, cbs, layer) ==
    IF layer = "client" THEN NoOptions
    ELSE IF layer = "nulled" THEN [k \in {"validateResponse"} |-> "null"]
    ELSE Given(retries, reset, cbs, "requestFn")

Methods == {"get", "post"}

Timeouts == {0, MaxTimeout}

\* What the transport answers: an HTTP status, or 0 for a connection error;
\* -1 is a failure that another response interceptor, registered before
\* axios-retry's, replaced with a plain Error.
Outcomes == {-1, 0, 200, 500}

\* How long an attempt takes: it settles within MaxDur or runs into its timeout.
Durations(timeout) ==
    IF timeout = 0 THEN 0 .. MaxDur
    ELSE {d \in 0 .. MaxDur : d < timeout} \cup {timeout}

\* How long an asynchronous user callback takes.
HookDurs == {0, MaxHookDur}

----------------------------------------------------------------------------
(* Initial state: a registered client and a request not yet dispatched *)

\* axiosRetry(client, clientOptions) was called and the caller has built a
\* request with `requestOptions` under the namespace and the signal `sig`.
Built(clientOptions, requestOptions, method, timeout, sig, clientAgents, agents) ==
    /\ defaultOptions = clientOptions
    /\ axiosDefaults = clientAgents
    /\ override = requestOptions
    /\ originalTimeout = timeout
    /\ config = [method |-> method,
                 timeout |-> timeout,
                 axiosRetry |-> requestOptions,
                 validateStatus |-> "default",
                 transformRequest |-> "default",
                 data |-> "object",
                 agent |-> agents.agent,
                 httpAgent |-> agents.httpAgent,
                 httpsAgent |-> agents.httpsAgent]
    /\ now = StartTime
    /\ pc = "pending"
    /\ attempts = 0
    /\ error = NoValue
    /\ delay = 0
    /\ result = [kind |-> "pending", value |-> NoValue]
    /\ calls = [retryCondition |-> 0, retryDelay |-> 0, onRetry |-> 0,
                onMaxRetryTimesExceeded |-> 0]
    /\ hook = NoInvocation
    /\ verdict = NoVerdict
    /\ hookTime = 0
    /\ signal = sig
    /\ timer = NoTimer
    /\ returned = NoReturn
    /\ interceptors = Registered

\* A client and a request without agents.
Client(clientOptions, requestOptions, method, timeout, sig) ==
    Built(clientOptions, requestOptions, method, timeout, sig, NoAgents, NoAgents)

\* One request on the client.
Constructed(clientOptions, requestOptions, method, timeout, sig) ==
    /\ Client(clientOptions, requestOptions, method, timeout, sig)
    /\ heap = <<>>
    /\ requests = <<>>

\* Requests without a cancellation signal.
Init ==
    \E retries \in {-1} \cup (0 .. MaxRetries),
       reset \in {"absent", "true", "false"},
       cbs \in CallbackSets,
       method \in Methods,
       timeout \in Timeouts :
      \E layer \in LayersOf(cbs) :
        Constructed(ClientOptions(retries, reset, cbs, layer),
                    RequestOptions(retries, reset, cbs, layer),
                    method, timeout, "none")

----------------------------------------------------------------------------
(* The request interceptor and the transport *)

requestInterceptor_KeepingValidateStatus(cfg, defaults, t) ==
    [cfg EXCEPT !.axiosRetry = setCurrentState(cfg, defaults, TRUE, t)]

requestInterceptor(cfg, defaults, t) ==
    LET currentState == setCurrentState(cfg, defaults, TRUE, t)
    IN  [cfg EXCEPT !.axiosRetry = currentState,
                    !.validateStatus =
                        IF currentState.validateResponse # "null"
                        THEN "alwaysFalse" ELSE @]

\* The interceptor of that kind is among the client's handlers.
Installed(kind) ==
    \E i \in DOMAIN interceptors[kind] : interceptors[kind][i] = "axios-retry"

\* The transport applies config.transformRequest to the body and keeps the
\* result in config.data: the client's transformer serialises.
Transform(cfg) ==
    [cfg EXCEPT !.data = IF cfg.transformRequest = "identity" THEN @
                         ELSE IF @ = "object" THEN "json" ELSE "json of json"]

Dispatch_Intercepted(cfg, t) ==
    /\ config' = Transform(requestInterceptor(cfg, defaultOptions, t))
    /\ attempts' = attempts + 1
    /\ pc' = "inflight"

\* axiosInstance(config): the request interceptor, unless ejected, runs; then
\* the transport sends.
Dispatch(cfg, t) ==
    /\ config' = Transform(IF Installed("request")
                           THEN requestInterceptor(cfg, defaultOptions, t)
                           ELSE cfg)
    /\ attempts' = attempts + 1
    /\ pc' = "inflight"

\* The transport's status check: config.validateStatus, by default 2xx.
validateStatus(cfg, status) ==
    IF cfg.validateStatus = "alwaysFalse" THEN FALSE
    ELSE status >= 200 /\ status < 300

\* The code the transport gives an error that carries a response.
StatusCode(status) ==
    IF status >= 500 /\ status <= 599 THEN "ERR_BAD_RESPONSE"
    ELSE IF status >= 400 /\ status <= 499 THEN "ERR_BAD_REQUEST"
    ELSE ""

Settle(kind, value) ==
    /\ result' = [kind |-> kind, value |-> value]
    /\ pc' = "settled"

\* The caller issues the request.
Request ==
    /\ pc = "pending"
    /\ Dispatch(config, now)
    /\ UNCHANGED <<axiosDefaults, heap, requests, defaultOptions, override, originalTimeout, now, error, delay, result, calls,
                   hook, verdict, hookTime, signal, timer, returned, interceptors>>

\* The attempt in flight settles: cancelled when the signal is aborted, else
\* with a response, a connection error or, when it has run for
\* config.timeout, a timeout error.
TransportSettle ==
    /\ pc = "inflight"
    /\ \E d \in Durations(config.timeout), o \in Outcomes :
        /\ signal = "aborted" => (d = 0 /\ o = 0)
        /\ now' = now + d
        /\ IF signal = "aborted"
           THEN /\ error' = AxiosError(attempts, "ERR_CANCELED", 0, config.method)
                /\ pc' = "failed"
                /\ UNCHANGED result
           ELSE IF config.timeout # 0 /\ d = config.timeout
           THEN /\ o = 0
                /\ error' = AxiosError(attempts, "ECONNABORTED", 0, config.method)
                /\ pc' = "failed"
                /\ UNCHANGED result
           ELSE IF o = -1
           THEN /\ error' = PlainError(attempts)
                /\ pc' = "failed"
                /\ UNCHANGED result
           ELSE IF o = 0
           THEN /\ error' = AxiosError(attempts, "ECONNRESET", 0, config.method)
                /\ pc' = "failed"
                /\ UNCHANGED result
           ELSE IF validateStatus(config, o)
           THEN /\ Settle("resolved", AxiosResponse(attempts, o, config.method))
                /\ UNCHANGED error
           ELSE /\ error' = AxiosError(attempts, StatusCode(o), o, config.method)
                /\ pc' = "failed"
                /\ UNCHANGED result
    /\ UNCHANGED <<axiosDefaults, heap, requests, defaultOptions, override, originalTimeout, config, attempts, delay, calls,
                   hook, verdict, hookTime, signal, timer, returned, interceptors>>

----------------------------------------------------------------------------
(* The response interceptor *)

Invoke(c, name) == [c EXCEPT ![name] = @ + 1]

\* The evaluation of failure `err` with the state it was evaluated in.
Verdict(err, currentState, value) ==
    [at |-> err.id, retryCount |-> currentState.retryCount, value |-> value]

Invocation(name, retryCount, err) ==
    [name |-> name, status |-> "running", retryCount |-> retryCount, error |-> err]

\* validateResponse?.(error.response): a user predicate may answer either way.
ValidateResults(currentState, err) ==
    IF err.status = 0 \/ currentState.validateResponse = "null"
    THEN {FALSE} ELSE BOOLEAN

\* retryCondition(error): the default classifies the error; a user function may
\* return true or false, return a promise, or throw.
ConditionResults(currentState, err) ==
    IF currentState.retryCondition = "isNetworkOrIdempotentRequestError"
    THEN {IF isNetworkOrIdempotentRequestError(err) THEN "true" ELSE "false"}
    ELSE {"true", "false", "promise", "throw"}

\* What the promise a user retryCondition returned settles with.
PromiseResults == {"resolved true", "resolved false", "resolved undefined", "rejected"}

\* retryDelay(retryCount, error)
RetryDelays(currentState, err) ==
    IF currentState.retryDelay = "noDelay"
    THEN {noDelay(currentState.retryCount, err)}
    ELSE 0 .. MaxDelay

BudgetRemains_OffByOne(currentState) ==
    currentState.retryCount <= currentState.retries

\* shouldRetry: (retryCount || 0) < retries, before retryCondition is consulted
BudgetRemains(currentState) == currentState.retryCount < currentState.retries

PromiseGrants_OnlyTrue(settled) == settled = "resolved true"

PromiseGrants_OnRejection(settled) == settled # "resolved false"

PromiseGrants_UnlessRejected(settled) == settled # "rejected"

\* shouldRetry: the awaited promise grants a retry unless it resolved to false
PromiseGrants(settled) == settled \notin {"resolved false", "rejected"}

TimeoutApplies_IgnoringReset(cfg, currentState) ==
    /\ cfg.timeout # 0
    /\ currentState.lastRequestTime # 0

\* handleRetry: !shouldResetTimeout && config.timeout && currentState.lastRequestTime
TimeoutApplies(cfg, currentState) ==
    /\ ~currentState.shouldResetTimeout
    /\ cfg.timeout # 0
    /\ currentState.lastRequestTime # 0

RemainingTimeout_WithoutDelay(cfg, currentState, t, d) ==
    cfg.timeout - (t - currentState.lastRequestTime)

\* handleRetry: config.timeout - lastRequestDuration - delay
RemainingTimeout(cfg, currentState, t, d) ==
    cfg.timeout - (t - currentState.lastRequestTime) - d

TimeoutExhausted_Strict(timeout) == timeout < 0

\* handleRetry: timeout <= 0
TimeoutExhausted(timeout) == timeout <= 0

MaxRetryTimesExceeded_Unchecked(currentState) == TRUE

MaxRetryTimesExceeded_Strict(currentState) ==
    currentState.retryCount > currentState.retries

\* handleMaxRetryTimesExceeded: retryCount >= retries
MaxRetryTimesExceeded(currentState) ==
    currentState.retryCount >= currentState.retries

IncrementRetryCount_Twice(currentState) ==
    [currentState EXCEPT !.retryCount = @ + 2]

\* handleRetry: currentState.retryCount += 1
IncrementRetryCount(currentState) == [currentState EXCEPT !.retryCount = @ + 1]

SameObject_ByValue(a, b) == a.options = b.options

\* a === b for agents: the same object, or both undefined
SameObject(a, b) == a.id = b.id

\* fixConfig: delete each agent of the config that is the client's own.
fixConfig(instanceDefaults, cfg) ==
    [cfg EXCEPT
        !.agent = IF SameObject(instanceDefaults.agent, @) THEN NoAgent ELSE @,
        !.httpAgent = IF SameObject(instanceDefaults.httpAgent, @) THEN NoAgent ELSE @,
        !.httpsAgent = IF SameObject(instanceDefaults.httpsAgent, @) THEN NoAgent ELSE @]

handleRetry_KeepingTransform(cfg, currentState, err, t, c) ==
    LET cs == IncrementRetryCount(currentState)
    IN  \E d \in RetryDelays(cs, err) :
          LET timeout == RemainingTimeout(cfg, cs, t, d)
              budgeted == TimeoutApplies(cfg, cs)
          IN  /\ delay' = d
              /\ IF budgeted /\ TimeoutExhausted(timeout)
                 THEN /\ config' = [fixConfig(axiosDefaults, cfg) EXCEPT !.axiosRetry = cs]
                      /\ calls' = Invoke(c, "retryDelay")
                      /\ Settle("rejected", err)
                      /\ UNCHANGED hook
                 ELSE /\ config' = [fixConfig(axiosDefaults, cfg) EXCEPT
                            !.axiosRetry = cs,
                            !.timeout = IF budgeted THEN timeout ELSE @]
                      /\ calls' = Invoke(Invoke(c, "retryDelay"), "onRetry")
                      /\ hook' = Invocation("onRetry", cs.retryCount, err)
                      /\ pc' = "onRetry"
                      /\ UNCHANGED result

handleRetry_CheckingFirst(cfg, currentState, err, t, c) ==
    LET cs == IncrementRetryCount(currentState)
    IN  \E d \in RetryDelays(cs, err) :
          LET timeout == RemainingTimeout(cfg, cs, t, d)
              budgeted == TimeoutApplies(cfg, cs)
          IN  /\ delay' = d
              /\ IF budgeted /\ TimeoutExhausted(timeout)
                 THEN /\ config' = [fixConfig(axiosDefaults, cfg) EXCEPT
                                        !.axiosRetry = currentState]
                      /\ calls' = Invoke(c, "retryDelay")
                      /\ Settle("rejected", err)
                      /\ UNCHANGED hook
                 ELSE /\ config' = [fixConfig(axiosDefaults, cfg) EXCEPT
                            !.axiosRetry = cs,
                            !.timeout = IF budgeted THEN timeout ELSE @,
                            !.transformRequest = "identity"]
                      /\ calls' = Invoke(Invoke(c, "retryDelay"), "onRetry")
                      /\ hook' = Invocation("onRetry", cs.retryCount, err)
                      /\ pc' = "onRetry"
                      /\ UNCHANGED result

\* handleRetry up to the call of onRetry, at time t; c counts the calls so far.
handleRetry(cfg, currentState, err, t, c) ==
    LET cs == IncrementRetryCount(currentState)
    IN  \E d \in RetryDelays(cs, err) :
          LET timeout == RemainingTimeout(cfg, cs, t, d)
              budgeted == TimeoutApplies(cfg, cs)
          IN  /\ delay' = d
              /\ IF budgeted /\ TimeoutExhausted(timeout)
                 THEN /\ config' = [fixConfig(axiosDefaults, cfg) EXCEPT !.axiosRetry = cs]
                      /\ calls' = Invoke(c, "retryDelay")
                      /\ Settle("rejected", err)
                      /\ UNCHANGED hook
                 ELSE /\ config' = [fixConfig(axiosDefaults, cfg) EXCEPT
                            !.axiosRetry = cs,
                            !.timeout = IF budgeted THEN timeout ELSE @,
                            !.transformRequest = "identity"]
                      /\ calls' = Invoke(Invoke(c, "retryDelay"), "onRetry")
                      /\ hook' = Invocation("onRetry", cs.retryCount, err)
                      /\ pc' = "onRetry"
                      /\ UNCHANGED result

Decline_Resolving(cfg, currentState, err, c) ==
    /\ config' = cfg
    /\ IF MaxRetryTimesExceeded(currentState)
       THEN /\ calls' = Invoke(c, "onMaxRetryTimesExceeded")
            /\ hook' = Invocation("onMaxRetryTimesExceeded",
                                  currentState.retryCount, err)
            /\ pc' = "onMaxRetryTimesExceeded"
            /\ UNCHANGED result
       ELSE /\ calls' = c
            /\ Settle("resolved", err)
            /\ UNCHANGED hook
    /\ UNCHANGED delay

\* The retry is declined: handleMaxRetryTimesExceeded, then Promise.reject(error).
Decline(cfg, currentState, err, c) ==
    /\ config' = cfg
    /\ IF MaxRetryTimesExceeded(currentState)
       THEN /\ calls' = Invoke(c, "onMaxRetryTimesExceeded")
            /\ hook' = Invocation("onMaxRetryTimesExceeded",
                                  currentState.retryCount, err)
            /\ pc' = "onMaxRetryTimesExceeded"
            /\ UNCHANGED result
       ELSE /\ calls' = c
            /\ Settle("rejected", err)
            /\ UNCHANGED hook
    /\ UNCHANGED delay

HasConfig_Always(err) == TRUE

\* const { config } = error; if (!config) ...
HasConfig(err) == err.method # ""

\* The response interceptor's rejection handler, up to its first pending await.
OnRejected ==
    /\ pc = "failed"
    /\ Installed("response")
    /\ LET currentState == setCurrentState(config, defaultOptions, FALSE, now)
           cfg == [config EXCEPT !.axiosRetry = currentState]
       IN  \E valid \in ValidateResults(currentState, error) :
             IF ~HasConfig(error)
             THEN /\ ~valid
                  /\ Settle("rejected", error)
                  /\ UNCHANGED <<config, delay, calls, hook, verdict>>
             ELSE IF valid
             THEN /\ Settle("resolved",
                            AxiosResponse(error.id, error.status, error.method))
                  /\ config' = cfg
                  /\ UNCHANGED <<delay, calls, hook, verdict>>
             ELSE IF BudgetRemains(currentState)
             THEN \E r \in ConditionResults(currentState, error) :
                    /\ verdict' = Verdict(error, currentState, r)
                    /\ CASE r = "true" ->
                              handleRetry(cfg, currentState, error, now,
                                          Invoke(calls, "retryCondition"))
                         [] r = "false" ->
                              Decline(cfg, currentState, error,
                                      Invoke(calls, "retryCondition"))
                         [] r = "promise" ->
                              /\ config' = cfg
                              /\ calls' = Invoke(calls, "retryCondition")
                              /\ pc' = "retryCondition"
                              /\ UNCHANGED <<delay, result, hook>>
                         [] r = "throw" ->
                              /\ config' = cfg
                              /\ calls' = Invoke(calls, "retryCondition")
                              /\ Settle("rejected", HookError("retryCondition"))
                              /\ UNCHANGED <<delay, hook>>
             ELSE /\ Decline(cfg, currentState, error, calls)
                  /\ verdict' = Verdict(error, currentState, "not asked")
    /\ UNCHANGED <<axiosDefaults, heap, requests, defaultOptions, override, originalTimeout, now, attempts, error, hookTime,
                   signal, timer, returned, interceptors>>

\* The promise returned by retryCondition settles after h.
ConditionSettled ==
    /\ pc = "retryCondition"
    /\ \E h \in HookDurs, settled \in PromiseResults :
        /\ now' = now + h
        /\ hookTime' = hookTime + h
        /\ verdict' = [verdict EXCEPT !.value = settled]
        /\ IF PromiseGrants(settled)
           THEN handleRetry(config, config.axiosRetry, error, now + h, calls)
           ELSE Decline(config, config.axiosRetry, error, calls)
    /\ UNCHANGED <<axiosDefaults, heap, requests, defaultOptions, override, originalTimeout, attempts, error, signal, timer,
                   returned, interceptors>>

\* The handler has resubmitted the request: its locals are gone.
Resubmitted ==
    /\ delay' = 0
    /\ error' = NoValue
    /\ hook' = NoInvocation
    /\ verdict' = NoVerdict

OnRetrySettled_Swallowing ==
    /\ pc = "onRetry"
    /\ \E h \in HookDurs, ok \in BOOLEAN :
        /\ config.axiosRetry.onRetry = "noop" => (h = 0 /\ ok)
        /\ now' = now + h
        /\ hookTime' = hookTime + h
        /\ hook' = [hook EXCEPT !.status = IF ok THEN "returned" ELSE "threw"]
        /\ timer' = [status |-> "pending", due |-> now + h + delay]
        /\ pc' = "delay"
    /\ UNCHANGED <<axiosDefaults, heap, requests, defaultOptions, override, originalTimeout, config, attempts, error, delay,
                   result, calls, verdict, signal, returned, interceptors>>

OnRetrySettled_ArmingTimer ==
    /\ pc = "onRetry"
    /\ \E h \in HookDurs, ok \in BOOLEAN :
        /\ config.axiosRetry.onRetry = "noop" => (h = 0 /\ ok)
        /\ now' = now + h
        /\ hookTime' = hookTime + h
        /\ timer' = [status |-> "pending", due |-> now + h + delay]
        /\ IF ~ok
           THEN /\ hook' = [hook EXCEPT !.status = "threw"]
                /\ Settle("rejected", HookError("onRetry"))
           ELSE /\ hook' = [hook EXCEPT !.status = "returned"]
                /\ pc' = "delay"
                /\ UNCHANGED result
    /\ UNCHANGED <<axiosDefaults, heap, requests, defaultOptions, override, originalTimeout, config, attempts, error, delay,
                   verdict, calls, signal, returned, interceptors>>

\* onRetry returns, or its promise settles, after h; then handleRetry
\* resubmits at once when the signal is aborted, else sets the retry timer.
OnRetrySettled ==
    /\ pc = "onRetry"
    /\ \E h \in HookDurs, ok \in BOOLEAN :
        /\ config.axiosRetry.onRetry = "noop" => (h = 0 /\ ok)
        /\ now' = now + h
        /\ hookTime' = hookTime + h
        /\ IF ~ok
           THEN /\ hook' = [hook EXCEPT !.status = "threw"]
                /\ Settle("rejected", HookError("onRetry"))
                /\ UNCHANGED <<config, attempts, error, delay, verdict, timer>>
           ELSE IF signal = "aborted"
           THEN /\ Dispatch(config, now + h)
                /\ Resubmitted
                /\ UNCHANGED <<result, timer>>
           ELSE /\ hook' = [hook EXCEPT !.status = "returned"]
                /\ timer' = [status |-> "pending", due |-> now + h + delay]
                /\ pc' = "delay"
                /\ UNCHANGED <<config, attempts, error, delay, verdict, result>>
    /\ UNCHANGED <<axiosDefaults, heap, requests, defaultOptions, override, originalTimeout, calls, signal, returned,
                   interceptors>>

\* The retry timer, unless cleared, fires after `delay`: its callback
\* resubmits the request.
TimerFired ==
    /\ timer.status = "pending"
    /\ now' = timer.due
    /\ timer' = [timer EXCEPT !.status = "fired"]
    /\ Dispatch(config, timer.due)
    /\ Resubmitted
    /\ UNCHANGED <<axiosDefaults, heap, requests, defaultOptions, override, originalTimeout, result, calls, hookTime,
                   signal, returned, interceptors>>

Abort_WithoutListener ==
    /\ signal = "idle"
    /\ signal' = "aborted"
    /\ UNCHANGED <<axiosDefaults, heap, requests, defaultOptions, override, originalTimeout, config, now, pc, attempts,
                   error, delay, result, calls, hook, verdict, hookTime, timer, returned,
                   interceptors>>

Abort_KeepingTimer ==
    /\ signal = "idle"
    /\ signal' = "aborted"
    /\ IF pc = "delay"
       THEN \E e \in 0 .. Max(0, timer.due - now - 1) :
              /\ now' = now + e
              /\ timer' = timer
              /\ Dispatch(config, now + e)
              /\ Resubmitted
       ELSE UNCHANGED <<config, now, pc, attempts, error, delay, hook, verdict, timer>>
    /\ UNCHANGED <<axiosDefaults, heap, requests, defaultOptions, override, originalTimeout, result, calls, hookTime,
                   returned, interceptors>>

\* The caller aborts the signal.  While the retry timer is pending, after e of
\* the delay, handleRetry's abort listener runs: it clears the timer and
\* resubmits the request.
Abort ==
    /\ signal = "idle"
    /\ signal' = "aborted"
    /\ IF pc = "delay"
       THEN \E e \in 0 .. Max(0, timer.due - now - 1) :
              /\ now' = now + e
              /\ timer' = [timer EXCEPT !.status = "cleared"]
              /\ Dispatch(config, now + e)
              /\ Resubmitted
       ELSE UNCHANGED <<config, now, pc, attempts, error, delay, hook, verdict, timer>>
    /\ UNCHANGED <<axiosDefaults, heap, requests, defaultOptions, override, originalTimeout, result, calls, hookTime,
                   returned, interceptors>>

OnMaxSettled_Swallowing ==
    /\ pc = "onMaxRetryTimesExceeded"
    /\ \E h \in HookDurs, ok \in BOOLEAN :
        /\ config.axiosRetry.onMaxRetryTimesExceeded = "noop" => (h = 0 /\ ok)
        /\ now' = now + h
        /\ hookTime' = hookTime + h
        /\ hook' = [hook EXCEPT !.status = IF ok THEN "returned" ELSE "threw"]
        /\ Settle("rejected", error)
    /\ UNCHANGED <<axiosDefaults, heap, requests, defaultOptions, override, originalTimeout, config, attempts,
                   error, delay, calls, verdict, signal, timer, returned, interceptors>>

\* onMaxRetryTimesExceeded returns, or its promise settles, after h; then the
\* interceptor rejects.
OnMaxSettled ==
    /\ pc = "onMaxRetryTimesExceeded"
    /\ \E h \in HookDurs, ok \in BOOLEAN :
        /\ config.axiosRetry.onMaxRetryTimesExceeded = "noop" => (h = 0 /\ ok)
        /\ now' = now + h
        /\ hookTime' = hookTime + h
        /\ IF ok
           THEN /\ hook' = [hook EXCEPT !.status = "returned"]
                /\ Settle("rejected", error)
           ELSE /\ hook' = [hook EXCEPT !.status = "threw"]
                /\ Settle("rejected", HookError("onMaxRetryTimesExceeded"))
    /\ UNCHANGED <<axiosDefaults, heap, requests, defaultOptions, override, originalTimeout, config, attempts, error, delay,
                   calls, verdict, signal, timer, returned, interceptors>>

----------------------------------------------------------------------------

Next ==
    \/ Request
    \/ TransportSettle
    \/ OnRejected
    \/ ConditionSettled
    \/ OnRetrySettled
    \/ TimerFired
    \/ OnMaxSettled

Spec == Init /\ [][Next]_vars

----------------------------------------------------------------------------
(* Requests that carry a cancellation signal *)

InitAbort ==
    \E retries \in 1 .. MaxRetries,
       cbs \in {{}, {"retryCondition", "retryDelay"},
                {"retryDelay", "onRetry", "onMaxRetryTimesExceeded"}},
       method \in Methods,
       timeout \in Timeouts :
        Constructed(Given(retries, "absent", cbs, "clientFn"), NoOptions,
                    method, timeout, "idle")

NextAbort ==
    \/ Next
    \/ Abort

SpecAbort == InitAbort /\ [][NextAbort]_vars

----------------------------------------------------------------------------
(* Progress: every attempt settles, every callback returns, every timer fires *)

InitFair ==
    \E retries \in 0 .. MaxRetries,
       cbs \in {{}, {"retryCondition", "onRetry", "onMaxRetryTimesExceeded"}},
       method \in Methods,
       timeout \in Timeouts :
        Constructed(Given(retries, "absent", cbs, "clientFn"), NoOptions,
                    method, timeout, "none")

\* The handler is at one place at a time, so at most one step is enabled:
\* fairness of Next is fairness of each of them.
SpecFair ==
    /\ InitFair
    /\ [][Next]_vars
    /\ WF_vars(Next)

----------------------------------------------------------------------------
(* Two requests on one client: which object holds whose retry state *)

\* heap[ClientRef] is the options object passed to axiosRetry(client, options),
\* heap[CallerRef] the one object the caller passes as 'axios-retry' with both
\* requests; every other object is created by the interceptors.
ClientRef == Len(<<"defaultOptions">>)

CallerRef == ClientRef + 1

RequestIds == {"a", "b"}

NewObject_Assigning(h, obj) ==
    [heap |-> [h EXCEPT ![ClientRef] = obj], ref |-> ClientRef]

\* getRequestOptions: the spread makes a new object.
NewObject(h, obj) == [heap |-> Append(h, obj), ref |-> Len(h) + 1]

\* The heap without the objects that no request's config refers to any more.
Collect(h, reqs) ==
    [ref \in DOMAIN h |->
        IF ref \in {ClientRef, CallerRef} \cup {reqs[i].ns : i \in RequestIds}
        THEN h[ref] ELSE NoOptions]

\* A request of the caller, with its own config object.
NewRequest(timeout) ==
    [pc |-> "pending", ns |-> CallerRef, timeout |-> timeout, original |-> timeout,
     attempts |-> 0, granted |-> 0, dispatched |-> 0, spent |-> 0,
     result |-> "pending"]

InitTwo ==
    \E reset \in {"absent", "true"},
       given \in {NoOptions, [retries |-> 1]},
       timeout \in Timeouts :
        /\ reset = "true" => timeout # 0
        /\ Client(Given(MaxRetries, reset, {"retryCondition"}, "clientFn"),
                  given, "get", timeout, "none")
        /\ heap = <<defaultOptions, given>>
        /\ requests = [i \in RequestIds |-> NewRequest(timeout)]

\* axiosInstance(config) for request i: the request interceptor stores a new
\* currentState in config[namespace]; then the transport sends.
DispatchOf(i) ==
    LET r == requests[i]
        made == NewObject(heap, setCurrentState([axiosRetry |-> heap[r.ns]],
                                                heap[ClientRef], TRUE, now))
    IN  /\ r.pc \in {"pending", "delay"}
        /\ requests' = [requests EXCEPT ![i] =
                [r EXCEPT !.pc = "inflight", !.ns = made.ref,
                          !.attempts = @ + 1, !.dispatched = now]]
        /\ heap' = Collect(made.heap, requests')

\* The attempt of request i in flight succeeds or fails.
SettleOf(i) ==
    /\ requests[i].pc = "inflight"
    /\ \E ok \in BOOLEAN :
        requests' = [requests EXCEPT ![i] =
            IF ok THEN [@ EXCEPT !.pc = "settled", !.result = "resolved"]
            ELSE [@ EXCEPT !.pc = "failed"]]
    /\ UNCHANGED heap

\* The response interceptor for request i: setCurrentState, shouldRetry with
\* what the user's retryCondition answers, then handleRetry (whose delay and
\* onRetry are the defaults) or the rejection.
HandleOf(i) ==
    LET r == requests[i]
        made == NewObject(heap, setCurrentState([axiosRetry |-> heap[r.ns]],
                                                heap[ClientRef], FALSE, now))
        currentState == made.heap[made.ref]
        cs == IncrementRetryCount(currentState)
        cfg == [timeout |-> r.timeout]
        timeout == RemainingTimeout(cfg, cs, now, noDelay(cs.retryCount, NoValue))
    IN  /\ r.pc = "failed"
        /\ \E grant \in BOOLEAN :
            IF BudgetRemains(currentState) /\ grant
            THEN /\ requests' = [requests EXCEPT ![i] =
                        IF TimeoutApplies(cfg, cs) /\ TimeoutExhausted(timeout)
                        THEN [r EXCEPT !.pc = "settled", !.result = "rejected",
                                       !.ns = made.ref, !.granted = @ + 1]
                        ELSE [r EXCEPT !.pc = "delay", !.ns = made.ref,
                                       !.granted = @ + 1,
                                       !.spent = @ + (now - r.dispatched),
                                       !.timeout = IF TimeoutApplies(cfg, cs)
                                                   THEN timeout ELSE @]]
                 /\ heap' = Collect([made.heap EXCEPT ![made.ref] = cs], requests')
            ELSE /\ requests' = [requests EXCEPT ![i] =
                        [r EXCEPT !.pc = "settled", !.result = "rejected",
                                  !.ns = made.ref]]
                 /\ heap' = Collect(made.heap, requests')

\* Time passes while an attempt is in flight.
Tick ==
    /\ now < StartTime + MaxTimeout
    /\ \E i \in RequestIds : requests[i].pc = "inflight"
    /\ now' = now + 1
    /\ UNCHANGED <<heap, requests>>

Solo == <<axiosDefaults, defaultOptions, override, originalTimeout, config, pc, attempts, error, delay,
          result, calls, hook, verdict, hookTime, signal, timer, returned, interceptors>>

NextTwo ==
    \/ \E i \in RequestIds : DispatchOf(i) /\ UNCHANGED <<now, Solo>>
    \/ \E i \in RequestIds : SettleOf(i) /\ UNCHANGED <<now, Solo>>
    \/ \E i \in RequestIds : HandleOf(i) /\ UNCHANGED <<now, Solo>>
    \/ Tick /\ UNCHANGED Solo

SpecTwo == InitTwo /\ [][NextTwo]_vars

----------------------------------------------------------------------------
(* Requests and clients that carry agents *)

\* The client's own agent, and an agent the caller made with the same options.
ClientAgent == Agent("client", "keepAlive")

OwnAgent == Agent("caller", "keepAlive")

\* The request's agent is the client's (merged in from the defaults) unless
\* the caller gave one.
AgentsOf(clientAgents) ==
    {agents \in [AgentKeys -> {NoAgent, ClientAgent, OwnAgent}] :
        \A k \in AgentKeys : agents[k] \in {clientAgents[k], OwnAgent}}

InitAgents ==
    \E clientAgents \in [AgentKeys -> {NoAgent, ClientAgent}],
       timeout \in Timeouts :
      \E agents \in AgentsOf(clientAgents) :
        /\ Built(Given(MaxRetries, "absent", {}, "clientFn"), NoOptions,
                 "get", timeout, "none", clientAgents, agents)
        /\ heap = <<>>
        /\ requests = <<>>

NextAgents ==
    \/ Request
    \/ TransportSettle
    \/ OnRejected
    \/ OnRetrySettled
    \/ TimerFired
    \/ OnMaxSettled

SpecAgents == InitAgents /\ [][NextAgents]_vars

----------------------------------------------------------------------------
(* Deregistration: the caller ejects the interceptors before the request *)

\* client.interceptors[kind].eject(id): the handler's place becomes null.
Eject ==
    /\ pc = "pending"
    /\ \E kind \in {"request", "response"} :
        LET id == IF kind = "request" THEN IAxiosRetryReturn.requestInterceptorId
                  ELSE IAxiosRetryReturn.responseInterceptorId
        IN  /\ interceptors[kind][id] # "null"
            /\ interceptors' = [interceptors EXCEPT ![kind][id] = "null"]
    /\ UNCHANGED <<axiosDefaults, heap, requests, defaultOptions, override, originalTimeout, config, now, pc, attempts,
                   error, delay, result, calls, hook, verdict, hookTime, signal, timer,
                   returned>>

\* Without the response interceptor the failure goes to the caller as it is.
Unhandled ==
    /\ pc = "failed"
    /\ ~Installed("response")
    /\ Settle("rejected", error)
    /\ UNCHANGED <<axiosDefaults, heap, requests, defaultOptions, override, originalTimeout, config, now, attempts, error,
                   delay, calls, hook, verdict, hookTime, signal, timer, returned,
                   interceptors>>

InitEject ==
    \E retries \in 1 .. MaxRetries,
       cbs \in {{}, {"retryCondition", "retryDelay"},
                {"validateResponse", "onRetry", "onMaxRetryTimesExceeded"}},
       method \in Methods,
       timeout \in Timeouts :
        Constructed(Given(retries, "absent", cbs, "clientFn"), NoOptions,
                    method, timeout, "none")

NextEject ==
    \/ Next
    \/ Eject
    \/ Unhandled

SpecEject == InitEject /\ [][NextEject]_vars

----------------------------------------------------------------------------
(* The exported helpers, called directly by the user *)

HelperCodes ==
    {"", "ECONNRESET", "ECONNABORTED", "ERR_CANCELED", "ENOTFOUND", "ERR_BAD_RESPONSE"}

\* 0: the error carries no response.
HelperStatuses == {0, 200, 400, 404, 429, 499, 500, 599, 600}

\* "": the error carries no config, or a config without method; "GET": a
\* method sent in upper case.
HelperMethods ==
    {"", "get", "head", "options", "put", "delete", "post", "patch", "GET"}

Helpers ==
    {"isNetworkError", "isRetryableError", "isSafeRequestError",
     "isIdempotentRequestError", "isNetworkOrIdempotentRequestError"}

\* axiosRetry[f](err)
Apply(f, err) ==
    CASE f = "isNetworkError" -> isNetworkError(err)
      [] f = "isRetryableError" -> isRetryableError(err)
      [] f = "isSafeRequestError" -> isSafeRequestError(err)
      [] f = "isIdempotentRequestError" -> isIdempotentRequestError(err)
      [] f = "isNetworkOrIdempotentRequestError" ->
            isNetworkOrIdempotentRequestError(err)

\* The user calls an exported helper on an error.
CallHelper ==
    /\ returned = NoReturn
    /\ \E f \in Helpers, code \in HelperCodes, status \in HelperStatuses,
          method \in HelperMethods :
          LET err == AxiosError(0, code, status, method)
          IN  returned' = [fn |-> f, error |-> err, value |-> Apply(f, err)]
    /\ UNCHANGED <<axiosDefaults, heap, requests, defaultOptions, override, originalTimeout, config, now, pc, attempts,
                   error, delay, result, calls, hook, verdict, hookTime, signal, timer,
                   interceptors>>

InitHelpers ==
    \E method \in Methods :
        Constructed(NoOptions, NoOptions, method, 0, "none")

NextHelpers == CallHelper

SpecHelpers == InitHelpers /\ [][NextHelpers]_vars

----------------------------------------------------------------------------
(* The delay strategies, called on a failure and an attempt number *)

DelayStrategies == {"noDelay", "exponentialDelay", "linearDelay"}

\* The retry-after headers of a failure's response; "absent": none.
Headers ==
    {Header("absent", 0), Header("empty", 0), Header("invalid", 0),
     Header("seconds", -1), Header("seconds", 0), Header("seconds", 1),
     Header("seconds", 5),
     Header("date", StartTime - 1), Header("date", StartTime + 2500)}

DelayFactors == {-1, 100, 1000}

\* Math.random() in hundredths
Randoms == {0, 50, 95}

\* The failure handed to a delay strategy.
Failure(header) ==
    IF header.kind = "absent" THEN AxiosError(0, "ERR_BAD_RESPONSE", 429, "get")
    ELSE WithRetryAfter(AxiosError(0, "ERR_BAD_RESPONSE", 429, "get"), header)

ApplyDelay(f, retryCount, err, delayFactor, random) ==
    CASE f = "noDelay" -> noDelay(retryCount, err)
      [] f = "exponentialDelay" ->
            exponentialDelay(retryCount, err, delayFactor, random)
      [] f = "linearDelay" -> linearDelay(delayFactor, retryCount, err)

\* A delay strategy is called for attempt n.
CallDelay ==
    /\ returned = NoReturn
    /\ \E f \in DelayStrategies, n \in 0 .. MaxAttempt, header \in Headers,
          delayFactor \in DelayFactors, random \in Randoms :
          returned' = [fn |-> f,
                       error |-> Failure(header),
                       header |-> header,
                       retryCount |-> n,
                       delayFactor |-> delayFactor,
                       random |-> random,
                       value |-> ApplyDelay(f, n, Failure(header), delayFactor,
                                            random)]
    /\ UNCHANGED <<axiosDefaults, heap, requests, defaultOptions, override, originalTimeout, config, now, pc, attempts,
                   error, delay, result, calls, hook, verdict, hookTime, signal, timer,
                   interceptors>>

NextDelays == CallDelay

SpecDelays == InitHelpers /\ [][NextDelays]_vars

----------------------------------------------------------------------------
(* Timeout errors: a request under the default options, and the helpers
   called on errors whose code is ECONNABORTED *)

InitTimeoutError ==
    \E method \in Methods :
        Constructed(NoOptions, NoOptions, method, MaxTimeout, "none")

ClassifyTimeoutError ==
    /\ CallHelper
    /\ returned'.error.code = "ECONNABORTED"

\* Every callback is the built-in one: no promise of retryCondition to await.
NextTimeoutError ==
    \/ Request
    \/ TransportSettle
    \/ OnRejected
    \/ OnRetrySettled
    \/ TimerFired
    \/ OnMaxSettled
    \/ ClassifyTimeoutError

SpecTimeoutError == InitTimeoutError /\ [][NextTimeoutError]_vars

----------------------------------------------------------------------------
(* Properties *)

\* The Retry Extension, once the request interceptor has stamped it.
Stamped == pc # "pending"

retries == config.axiosRetry.retries

retryCount == config.axiosRetry.retryCount

shouldResetTimeout == config.axiosRetry.shouldResetTimeout

Rejected == pc = "settled" /\ result.kind = "rejected"

Resolved == pc = "settled" /\ result.kind = "resolved"

\* The exhaustion hook replaced the error.
OnMaxThrew == hook.name = "onMaxRetryTimesExceeded" /\ hook.status = "threw"

\* The caller was rejected with what a callback threw.
CallbackThrew ==
    /\ Rejected
    /\ result.value \in {HookError("retryCondition"), HookError("onRetry"),
                         HookError("onMaxRetryTimesExceeded")}

\* A granted retry was given up: its delay was computed, onRetry never called.
Abandoned == calls.retryDelay > calls.onRetry

\* The original timeout is a budget for the whole lifecycle.
Budgeted == Stamped /\ originalTimeout # 0 /\ ~shouldResetTimeout

\* Wall-clock time since the first dispatch.
Elapsed == now - StartTime

\* Time taken by the attempts and by the retry delays, the delay of an
\* abandoned retry included.
Spent == Elapsed - hookTime + (IF pc = "settled" THEN delay ELSE 0)

\* C1: retryCount never exceeds retries, at most retries + 1 attempts are
\* dispatched, and retryCondition, onRetry and the retry timer are only ever
\* reached within that budget.
C1_RetryBudget ==
    Stamped =>
        /\ retryCount <= retries
        /\ attempts <= retryCount + 1
        /\ attempts <= retries + 1
        /\ (pc = "retryCondition" => retryCount < retries)
        /\ (pc = "inflight" => attempts = retryCount + 1)

C1_Witness ==
    /\ Rejected
    /\ retries = MaxRetries
    /\ retryCount = retries
    /\ attempts = retries + 1
    /\ config.axiosRetry.retryCondition # "isNetworkOrIdempotentRequestError"

\* C2 as stated: with retries = 0 exactly one attempt is made and the caller is
\* rejected with that attempt's error.
C2_Original ==
    (Stamped /\ retries = 0) =>
        /\ attempts = 1
        /\ calls.retryCondition = 0
        /\ (Rejected => (result.value = error /\ error.id = 1))

\* C2 amended: with retries = 0 exactly one attempt is made, retryCondition
\* is not consulted, and the caller is rejected with that attempt's error
\* unless onMaxRetryTimesExceeded throws or rejects, in which case with that.
C2_SingleAttempt ==
    (Stamped /\ retries = 0) =>
        /\ attempts = 1
        /\ calls.retryCondition = 0
        /\ (Rejected =>
              IF OnMaxThrew
              THEN result.value = HookError("onMaxRetryTimesExceeded")
              ELSE result.value = error /\ error.id = 1)

C2_Witness ==
    /\ Rejected
    /\ retries = 0
    /\ attempts = 1
    /\ config.axiosRetry.retryCondition # "isNetworkOrIdempotentRequestError"
    /\ result.value = error
    /\ error.code = "ECONNRESET"

\* C3: a request that succeeds resolves with the response of its last attempt,
\* and the retryCount in that response's config is the number of failed
\* attempts before it.
C3_SuccessAfterRetries ==
    Resolved =>
        /\ result.value.id = attempts
        /\ result.value.code = "response"
        /\ retryCount = attempts - 1
        /\ calls.onRetry = attempts - 1

C3_Witness ==
    /\ Resolved
    /\ retries = 1
    /\ attempts = 2
    /\ retryCount = 1
    /\ result.value.status = 200
    /\ config.axiosRetry.retryCondition # "isNetworkOrIdempotentRequestError"

\* C4: when all retries + 1 attempts failed, the caller is rejected with the
\* last attempt's error, or with what onMaxRetryTimesExceeded threw.
C4_LastError ==
    (Rejected /\ attempts = retries + 1) =>
        IF OnMaxThrew
        THEN result.value = HookError("onMaxRetryTimesExceeded")
        ELSE /\ result.value = error
             /\ error.id = attempts

C4_Witness ==
    /\ Rejected
    /\ retries >= 1
    /\ attempts = retries + 1
    /\ result.value = error
    /\ error.id = attempts

\* C5: when retryCondition returns false, or a promise resolving to false,
\* the caller is rejected with that attempt's error and nothing further is
\* dispatched, although budget remains.
C5_ConditionDeclines ==
    verdict.value \in {"false", "resolved false"} =>
        /\ Rejected
        /\ result.value = error
        /\ error.id = verdict.at
        /\ attempts = verdict.at
        /\ retryCount < retries

C5_Witness ==
    /\ verdict.value = "resolved false"
    /\ Rejected
    /\ attempts = 1
    /\ retries = MaxRetries

\* The value the claim gives option k: the per-request override if given,
\* else the client-wide value if given, else the documented default.
Effective(k) ==
    IF k \in DOMAIN override THEN override[k]
    ELSE IF k \in DOMAIN defaultOptions THEN defaultOptions[k]
    ELSE CASE k = "retries" -> 3
           [] k = "retryCondition" -> "isNetworkOrIdempotentRequestError"
           [] k = "retryDelay" -> "noDelay"
           [] k = "shouldResetTimeout" -> FALSE
           [] k = "onRetry" -> "noop"
           [] k = "onMaxRetryTimesExceeded" -> "noop"
           [] k = "validateResponse" -> "null"

\* C6: every option in effect for the request is the per-request override if
\* given, else the client-wide value, else the built-in default; the attempts
\* made are bounded by the retries so resolved.
C6_OptionPrecedence ==
    Stamped =>
        /\ \A k \in OptionKeys : config.axiosRetry[k] = Effective(k)
        /\ attempts <= Effective("retries") + 1
        /\ (pc = "retryCondition" =>
              Effective("retryCondition") # "isNetworkOrIdempotentRequestError")

C6_Witness ==
    /\ "retries" \in DOMAIN defaultOptions
    /\ defaultOptions.retries = 0
    /\ "retries" \in DOMAIN override
    /\ override.retries = 2
    /\ attempts = 3
    /\ Resolved

\* C7: without shouldResetTimeout and with a timeout, a granted retry computes
\* remaining = timeout - (now - lastRequestTime) - delay; when remaining <= 0
\* the failure is propagated at once and nothing is dispatched, otherwise the
\* descriptor's timeout becomes remaining, so that every resubmitted attempt
\* has a strictly positive timeout.
C7_TimeoutArithmetic ==
    /\ [][(Budgeted /\ retryCount' = retryCount + 1) =>
            LET remaining ==
                    config.timeout - (now' - config.axiosRetry.lastRequestTime)
                        - delay'
            IN  IF remaining <= 0
                THEN /\ pc' = "settled"
                     /\ result' = [kind |-> "rejected", value |-> error]
                     /\ attempts' = attempts
                     /\ calls'.onRetry = calls.onRetry
                     /\ now' - now <= MaxHookDur
                ELSE /\ pc' = "onRetry"
                     /\ config'.timeout = remaining]_vars
    /\ [](Budgeted => config.timeout > 0)

C7_Witness ==
    /\ Budgeted
    /\ pc = "inflight"
    /\ attempts = 2
    /\ config.timeout = 1
    /\ originalTimeout = MaxTimeout

\* C8 as stated: once the attempts and the retry delays have used up the
\* timeout before retries is exhausted, the request is rejected with a
\* timeout-shaped error no later than the timeout after the first attempt
\* (the time spent awaiting callbacks is allowed for, and so is a callback
\* that throws).
C8_Original ==
    (Budgeted /\ pc = "settled" /\ Spent >= originalTimeout
        /\ calls.onMaxRetryTimesExceeded = 0 /\ ~CallbackThrew) =>
        /\ result.kind = "rejected"
        /\ result.value.code = "ECONNABORTED"
        /\ Elapsed <= originalTimeout + hookTime

\* C8 amended: the attempts and the retry delays never take more than the
\* timeout, so the request settles no later than the timeout plus the time
\* spent awaiting callbacks after the first attempt; and once they have used
\* up the timeout the request is rejected, with the last attempt's error (a
\* timeout error only if that attempt timed out) or with what a callback threw.
C8_TimeoutBudget ==
    Budgeted =>
        /\ Elapsed - hookTime <= originalTimeout
        /\ (pc = "settled" /\ Spent >= originalTimeout) =>
              /\ result.kind = "rejected"
              /\ \/ result.value = error
                 \/ result.value \in {HookError("retryCondition"),
                                      HookError("onMaxRetryTimesExceeded")}
              /\ (error.code # "ECONNABORTED" => Abandoned)

C8_Witness ==
    /\ Budgeted
    /\ Rejected
    /\ Abandoned
    /\ Spent >= originalTimeout
    /\ retryCount < retries
    /\ error.code = "ECONNRESET"
    /\ result.value = error

\* C9: with shouldResetTimeout the descriptor's timeout is never changed and
\* no granted retry is given up because of the time that has passed.
C9_ResetTimeout ==
    (Stamped /\ shouldResetTimeout) =>
        /\ config.timeout = originalTimeout
        /\ ~Abandoned

C9_Witness ==
    /\ Stamped
    /\ shouldResetTimeout
    /\ originalTimeout # 0
    /\ pc = "inflight"
    /\ attempts >= 2
    /\ Elapsed - hookTime > originalTimeout

\* C10: a failure evaluated with retryCount >= retries invokes
\* onMaxRetryTimesExceeded exactly once, with that last error and with
\* retryCount = retries, and the caller is only rejected once it has
\* completed; it is never invoked a second time.
C10_MaxRetryTimesExceeded ==
    /\ calls.onMaxRetryTimesExceeded <= 1
    /\ (Stamped /\ verdict.at = attempts /\ verdict.retryCount >= retries) =>
          /\ calls.onMaxRetryTimesExceeded = 1
          /\ hook.name = "onMaxRetryTimesExceeded"
          /\ hook.error = error
          /\ error.id = attempts
          /\ hook.retryCount = retries
          /\ (hook.status = "running" <=> pc = "onMaxRetryTimesExceeded")
          /\ (hook.status = "running" => result.kind = "pending")
          /\ (pc = "settled" => Rejected)

C10_Witness ==
    /\ Rejected
    /\ retries = MaxRetries
    /\ hook.name = "onMaxRetryTimesExceeded"
    /\ hook.status = "returned"
    /\ hook.retryCount = MaxRetries
    /\ hookTime > 0
    /\ result.value = error

\* C11: onMaxRetryTimesExceeded is only ever invoked with retryCount >= retries;
\* when retryCondition declines a failure (false, a promise resolving to false
\* or a rejecting promise) while retryCount < retries, the caller is rejected
\* with that failure and onMaxRetryTimesExceeded is not invoked.
C11_DeclineSkipsOnMax ==
    /\ (Stamped /\ calls.onMaxRetryTimesExceeded > 0) => retryCount >= retries
    /\ verdict.value \in {"false", "resolved false", "rejected"} =>
          /\ verdict.retryCount < retries
          /\ calls.onMaxRetryTimesExceeded = 0
          /\ hook.name # "onMaxRetryTimesExceeded"
          /\ Rejected
          /\ result.value = error
          /\ attempts = verdict.at

C11_Witness ==
    /\ verdict.value = "false"
    /\ Rejected
    /\ retries = MaxRetries
    /\ retryCount = 1
    /\ attempts = 2
    /\ calls.onMaxRetryTimesExceeded = 0
    /\ config.axiosRetry.onMaxRetryTimesExceeded # "noop"

\* C12: when onMaxRetryTimesExceeded throws or returns a rejecting promise,
\* the caller is rejected with what it threw, not with the last error.
C12_OnMaxFailureReplaces ==
    (hook.name = "onMaxRetryTimesExceeded" /\ hook.status = "threw") =>
        /\ Rejected
        /\ result.value = HookError("onMaxRetryTimesExceeded")
        /\ result.value # error
        /\ hook.error = error
        /\ error.id = attempts

C12_Witness ==
    /\ Rejected
    /\ hook.name = "onMaxRetryTimesExceeded"
    /\ hook.status = "threw"
    /\ retries = 1
    /\ attempts = 2
    /\ error.code = "ECONNRESET"
    /\ result.value = HookError("onMaxRetryTimesExceeded")

\* C13: every resubmission is preceded by exactly one onRetry call, made with
\* the incremented retryCount (1, 2, ... in order), the failure that triggered
\* the retry and the descriptor; while onRetry is awaited the timer is not
\* set and nothing is dispatched, the delay runs from the moment it completes,
\* and the request is resubmitted when the delay is over.  When all
\* retries + 1 attempts fail, onRetry was called retries times.
C13_OnRetryPerRetry ==
    /\ [](Stamped =>
            /\ calls.onRetry \in {attempts - 1, attempts}
            /\ (pc \in {"inflight", "failed", "retryCondition"} =>
                  calls.onRetry = attempts - 1)
            /\ (pc \in {"onRetry", "delay"} => hook.name = "onRetry"))
    /\ [](hook.name = "onRetry" =>
            /\ hook.retryCount = calls.onRetry
            /\ hook.retryCount = retryCount
            /\ hook.retryCount = attempts
            /\ hook.error = error
            /\ error.id = attempts
            /\ (pc = "onRetry" => hook.status = "running" /\ timer.status # "pending")
            /\ (pc = "delay" => hook.status = "returned" /\ timer.status = "pending"))
    /\ [][pc = "onRetry" =>
            /\ attempts' = attempts
            /\ (pc' = "delay" => timer'.due = now' + delay)]_vars
    /\ [][(attempts >= 1 /\ attempts' # attempts) =>
            /\ attempts' = attempts + 1
            /\ pc = "delay"
            /\ now' = timer.due]_vars
    /\ []((Rejected /\ attempts = retries + 1) => calls.onRetry = retries)

C13_Witness ==
    /\ pc = "onRetry"
    /\ hook.status = "running"
    /\ retries = MaxRetries
    /\ hook.retryCount = MaxRetries
    /\ calls.onRetry = MaxRetries
    /\ hookTime > 0
    /\ config.axiosRetry.retryCondition = "isNetworkOrIdempotentRequestError"

\* C14: when onRetry throws or its promise rejects, the caller is rejected
\* with what it threw instead of the transport's error, the request is not
\* resubmitted, no timer is set and onRetry is not called again.
C14_OnRetryFailureAborts ==
    (hook.name = "onRetry" /\ hook.status = "threw") =>
        /\ Rejected
        /\ result.value = HookError("onRetry")
        /\ result.value # error
        /\ attempts = hook.retryCount
        /\ calls.onRetry = hook.retryCount
        /\ timer.status # "pending"

C14_Witness ==
    /\ Rejected
    /\ hook.name = "onRetry"
    /\ hook.status = "threw"
    /\ retries = MaxRetries
    /\ attempts = 1
    /\ calls.onRetry = 1
    /\ error.code = "ECONNRESET"
    /\ result.value = HookError("onRetry")

\* C15: a promise returned by retryCondition (consulted only while
\* retryCount < retries) is awaited before anything else happens; when it
\* rejects or resolves to false the failure is propagated and no retry is
\* started; when it resolves to anything else (true, undefined) the retry is
\* started: retryCount is incremented and the retry goes on to onRetry and
\* the timer, unless the timeout budget or a throwing onRetry ends it.
C15_PromiseVerdict ==
    /\ verdict.value = "promise" =>
          /\ pc = "retryCondition"
          /\ verdict.retryCount < retries
          /\ retryCount = verdict.retryCount
          /\ attempts = verdict.at
          /\ result.kind = "pending"
    /\ verdict.value \in {"resolved false", "rejected"} =>
          /\ Rejected
          /\ result.value = error
          /\ attempts = verdict.at
          /\ retryCount = verdict.retryCount
          /\ calls.retryDelay = verdict.retryCount
    /\ verdict.value \in PromiseResults \ {"resolved false", "rejected"} =>
          /\ retryCount = verdict.retryCount + 1
          /\ calls.retryDelay = retryCount
          /\ \/ pc \in {"onRetry", "delay"}
             \/ pc = "settled" /\ Abandoned /\ Budgeted
             \/ pc = "settled" /\ hook.name = "onRetry" /\ hook.status = "threw"

C15_Witness ==
    /\ verdict.value = "resolved undefined"
    /\ pc = "delay"
    /\ retryCount = 1
    /\ attempts = 1
    /\ hookTime > 0

\* C16: a failure without a request config is handed to the caller at once
\* and unchanged: the handler rejects with it in one step in which no time
\* passes, nothing is dispatched, the descriptor is not touched and no
\* callback is invoked.
C16_NoConfig ==
    /\ [][(pc = "failed" /\ ~HasConfig(error)) =>
            /\ pc' = "settled"
            /\ result' = [kind |-> "rejected", value |-> error]
            /\ attempts' = attempts
            /\ calls' = calls
            /\ config' = config
            /\ now' = now
            /\ hook' = hook
            /\ verdict' = verdict
            /\ timer' = timer]_vars
    /\ []((pc = "settled" /\ error = PlainError(attempts)) =>
            /\ Rejected
            /\ result.value = error
            /\ verdict = NoVerdict
            /\ hook = NoInvocation
            /\ calls.onMaxRetryTimesExceeded = 0
            /\ calls.retryCondition <= attempts - 1
            /\ calls.retryDelay = attempts - 1
            /\ calls.onRetry = attempts - 1)

C16_Witness ==
    /\ Rejected
    /\ error = PlainError(1)
    /\ result.value = error
    /\ retries = MaxRetries
    /\ config.axiosRetry.retryCondition # "isNetworkOrIdempotentRequestError"
    /\ config.axiosRetry.onMaxRetryTimesExceeded # "noop"
    /\ config.axiosRetry.validateResponse # "null"
    /\ calls.retryCondition = 0

\* A validateResponse is in effect for the request.
Validating == Stamped /\ config.axiosRetry.validateResponse # "null"

\* C17: with a validateResponse in effect the transport resolves nothing by
\* itself: every response, 2xx included, reaches the response interceptor
\* and validateResponse.  A response it accepts is resolved to the caller
\* without retryCondition being consulted for it; a response it rejects gets
\* the retry decision of any failure (retryCondition while
\* retryCount < retries, else onMaxRetryTimesExceeded), so that a rejected
\* 200 is retried and the caller only ever observes a validated response.
C17_ValidateResponse ==
    /\ [](Validating => config.validateStatus = "alwaysFalse")
    /\ [][(Validating /\ pc = "inflight") => pc' = "failed"]_vars
    /\ []((Validating /\ Resolved) =>
            /\ error.status # 0
            /\ error.id = attempts
            /\ result.value = AxiosResponse(error.id, error.status, error.method)
            /\ verdict = NoVerdict
            /\ calls.retryCondition = attempts - 1)
    /\ [][(Validating /\ pc = "failed" /\ error.status # 0
              /\ result'.kind # "resolved") =>
            /\ verdict'.at = error.id
            /\ IF retryCount < retries
               THEN /\ calls'.retryCondition = calls.retryCondition + 1
                    /\ verdict'.value \in {"true", "false", "promise", "throw"}
                    /\ verdict'.value = "true" => pc' \in {"onRetry", "settled"}
               ELSE /\ calls'.retryCondition = calls.retryCondition
                    /\ pc' = "onMaxRetryTimesExceeded"]_vars

C17_Witness ==
    /\ Validating
    /\ pc = "delay"
    /\ error.status = 200
    /\ verdict.value = "true"
    /\ attempts = 2
    /\ retryCount = 2

\* C18: a validateResponse given with the request is the one in effect,
\* whatever the client-wide one is; given as null it switches validation off
\* for the request: the transport's default status check decides, no 2xx
\* response ever reaches the retry decision, and a 2xx response is resolved
\* to the caller as the transport delivered it.
C18_RequestValidateResponse ==
    (Stamped /\ "validateResponse" \in DOMAIN override) =>
        /\ config.axiosRetry.validateResponse = override.validateResponse
        /\ override.validateResponse = "null" =>
              /\ config.validateStatus = "default"
              /\ ~(error.status >= 200 /\ error.status < 300)
              /\ Resolved =>
                    /\ error = NoValue
                    /\ result.value.id = attempts
                    /\ result.value.status >= 200
                    /\ result.value.status < 300
                    /\ calls.retryCondition = attempts - 1

C18_Witness ==
    /\ "validateResponse" \in DOMAIN defaultOptions
    /\ defaultOptions.validateResponse = "clientFn"
    /\ "validateResponse" \in DOMAIN override
    /\ override.validateResponse = "null"
    /\ Resolved
    /\ attempts = 1
    /\ result.value.status = 200
    /\ calls.retryCondition = 0

\* C19: when the signal is aborted while the retry timer is pending, the
\* timer is cleared and the request is resubmitted in that same step, before
\* the delay has run out; no timer is ever pending with an aborted signal;
\* and when the signal is already aborted once onRetry has completed, the
\* request is resubmitted at once and no timer is set.
C19_AbortSkipsDelay ==
    /\ [][(pc = "delay" /\ signal = "idle" /\ signal' = "aborted") =>
            /\ pc' = "inflight"
            /\ attempts' = attempts + 1
            /\ timer' = [status |-> "cleared", due |-> timer.due]
            /\ now' <= timer.due
            /\ (now < timer.due => now' < timer.due)
            /\ config'.axiosRetry.lastRequestTime = now']_vars
    /\ [](pc = "delay" => signal # "aborted" /\ timer.status = "pending")
    /\ [](timer.status = "pending" => pc = "delay")
    /\ [](timer.status = "cleared" => signal = "aborted")
    /\ [][(pc = "onRetry" /\ signal = "aborted" /\ pc' # "settled") =>
            /\ pc' = "inflight"
            /\ attempts' = attempts + 1
            /\ timer' = timer
            /\ now' - now <= MaxHookDur
            /\ config'.axiosRetry.lastRequestTime = now']_vars

C19_Witness ==
    /\ signal = "aborted"
    /\ timer.status = "cleared"
    /\ pc = "inflight"
    /\ attempts = 2
    /\ config.axiosRetry.lastRequestTime < timer.due

\* C20: isRetryableError(err) is true exactly when err.code is not
\* ECONNABORTED and err has no response, or a response with status 429 or a
\* status from 500 to 599; so it is false for 200, 400, 404, 499 and 600,
\* and true for a 429 whose code is not ECONNABORTED.
C20_isRetryableError ==
    returned.fn = "isRetryableError" =>
        LET err == returned.error
        IN  /\ returned.value <=>
                  /\ err.code # "ECONNABORTED"
                  /\ \/ err.status = 0
                     \/ err.status = 429
                     \/ err.status \in 500 .. 599
            /\ err.status \in {200, 400, 404, 499, 600} => ~returned.value
            /\ err.code = "ECONNABORTED" => ~returned.value
            /\ (err.status = 429 /\ err.code # "ECONNABORTED") => returned.value

C20_Witness ==
    /\ returned.fn = "isRetryableError"
    /\ returned.error.status = 429
    /\ returned.error.code = "ERR_BAD_RESPONSE"
    /\ returned.value

\* C21: isNetworkError(err) is true exactly when err has no response, has a
\* code, the code is neither ERR_CANCELED nor ECONNABORTED and
\* is-retry-allowed accepts it (it refuses ENOTFOUND); so it is false for
\* every error with a response and for every error without a code, and true
\* for a connection reset without response.
C21_isNetworkError ==
    returned.fn = "isNetworkError" =>
        LET err == returned.error
        IN  /\ returned.value <=>
                  /\ err.status = 0
                  /\ err.code # ""
                  /\ err.code \notin {"ERR_CANCELED", "ECONNABORTED"}
                  /\ isRetryAllowed(err)
            /\ err.status # 0 => ~returned.value
            /\ err.code = "" => ~returned.value
            /\ err.code \in {"ERR_CANCELED", "ECONNABORTED", "ENOTFOUND"} =>
                  ~returned.value
            /\ (err.status = 0 /\ err.code = "ECONNRESET") => returned.value

C21_Witness ==
    /\ returned.fn = "isNetworkError"
    /\ returned.error.status = 0
    /\ returned.error.code = "ECONNRESET"
    /\ returned.error.method = ""
    /\ returned.value

\* The claims' reading of isRetryableError.
Retryable(err) ==
    /\ err.code # "ECONNABORTED"
    /\ \/ err.status = 0
       \/ err.status = 429
       \/ err.status \in 500 .. 599

\* C22: isSafeRequestError(err) is true exactly when err.config.method is
\* present, is get, head or options as written in lower case, and the error
\* is retryable; so it is false for post, put, patch, delete, for GET in
\* upper case and for an error without config.
C22_isSafeRequestError ==
    returned.fn = "isSafeRequestError" =>
        LET err == returned.error
        IN  /\ returned.value <=>
                  /\ err.method # ""
                  /\ err.method \in {"get", "head", "options"}
                  /\ Retryable(err)
            /\ err.method \in {"", "post", "put", "patch", "delete", "GET"} =>
                  ~returned.value

C22_Witness ==
    /\ returned.fn = "isSafeRequestError"
    /\ returned.error.method = "options"
    /\ returned.error.status = 500
    /\ returned.error.code = "ERR_BAD_RESPONSE"
    /\ returned.value

\* The claims' reading of isNetworkError.
Network(err) ==
    /\ err.status = 0
    /\ err.code \notin {"", "ERR_CANCELED", "ECONNABORTED"}
    /\ isRetryAllowed(err)

\* The claims' reading of isIdempotentRequestError.
Idempotent(err) ==
    /\ err.method \in {"get", "head", "options", "put", "delete"}
    /\ Retryable(err)

\* C23: isIdempotentRequestError(err) is true exactly when err.config.method
\* is present, is get, head, options, put or delete, and the error is
\* retryable, so it is false for post, patch and an error without config;
\* and isNetworkOrIdempotentRequestError(err) is the disjunction of
\* isNetworkError(err) and isIdempotentRequestError(err).
C23_isIdempotentRequestError ==
    LET err == returned.error
    IN  /\ returned.fn = "isIdempotentRequestError" =>
              /\ returned.value <=> Idempotent(err)
              /\ err.method \in {"", "post", "patch"} => ~returned.value
        /\ returned.fn = "isNetworkOrIdempotentRequestError" =>
              /\ returned.value <=> (Network(err) \/ Idempotent(err))
              /\ returned.value <=>
                    (Apply("isNetworkError", err)
                        \/ Apply("isIdempotentRequestError", err))

C23_Witness ==
    /\ returned.fn = "isNetworkOrIdempotentRequestError"
    /\ returned.error.method = "delete"
    /\ returned.error.status = 429
    /\ ~Network(returned.error)
    /\ returned.value

\* C24: each of the five predicates answers false for every error whose code
\* is ECONNABORTED, whatever its method and with or without a response; and
\* under the default options a request whose attempt timed out is not
\* retried: no onRetry, no timer, the caller is rejected with that error.
C24_TimeoutNeverRetried ==
    /\ (returned.fn \in Helpers /\ returned.error.code = "ECONNABORTED") =>
          ~returned.value
    /\ (error.code = "ECONNABORTED" /\ pc # "failed") =>
          /\ pc \in {"settled", "onMaxRetryTimesExceeded"}
          /\ attempts = error.id
          /\ retryCount = attempts - 1
          /\ verdict.value \in {"false", "not asked"}
          /\ (pc = "settled" => Rejected /\ result.value = error)

C24_Witness ==
    /\ returned.fn = "isNetworkOrIdempotentRequestError"
    /\ returned.error = AxiosError(0, "ECONNABORTED", 0, "get")
    /\ ~returned.value
    /\ Rejected
    /\ error = AxiosError(1, "ECONNABORTED", 0, "get")
    /\ result.value = error
    /\ retries = 3
    /\ retryCount = 0

\* A delay strategy was called.
DelayReturned == returned.fn \in DelayStrategies

C26_ExponentialDelay ==
    (returned.fn = "exponentialDelay" /\ returned.header.kind = "absent") =>
        LET n == returned.retryCount
            factor == IF returned.delayFactor = -1 THEN 100
                      ELSE returned.delayFactor
            base == 2 ^ n * factor
        IN  /\ returned.value >= base
            /\ returned.value * 10 <= 12 * base
            /\ returned.random = 0 => returned.value = base
            /\ exponentialDelay(n + 1, returned.error, returned.delayFactor, 0)
                  = 2 * base

C26_Witness ==
    /\ returned.fn = "exponentialDelay"
    /\ returned.header.kind = "absent"
    /\ returned.retryCount = 3
    /\ returned.delayFactor = -1
    /\ returned.random = 95
    /\ returned.value = 952

\* C27: linearDelay(factor)(attempt, err) is the larger of attempt * factor
\* and retryAfter(err), factor being 100 when not given; without a
\* retry-after header it is exactly attempt * factor, and the next attempt's
\* delay is not smaller.
C27_LinearDelay ==
    returned.fn = "linearDelay" =>
        LET n == returned.retryCount
            factor == IF returned.delayFactor = -1 THEN 100
                      ELSE returned.delayFactor
        IN  /\ returned.value = Max(n * factor, retryAfter(returned.error))
            /\ returned.header.kind = "absent" =>
                  /\ returned.value = n * factor
                  /\ linearDelay(returned.delayFactor, n + 1, returned.error)
                        >= returned.value

C27_Witness ==
    /\ returned.fn = "linearDelay"
    /\ returned.header.kind = "absent"
    /\ returned.retryCount = 3
    /\ returned.delayFactor = -1
    /\ returned.value = 300

Deregistered == ~Installed("request") /\ ~Installed("response")

\* C29: the client holds exactly one request and one response handler of
\* axios-retry, at the places axiosRetry returned; once both are ejected a
\* request is sent once with its descriptor as the caller built it (nothing
\* stamped, timeout and validateStatus untouched), no callback is invoked, no
\* timer is set, and a failure is handed to the caller as the transport
\* produced it.
C29_Deregistration ==
    /\ Len(interceptors.request) = 1
    /\ Len(interceptors.response) = 1
    /\ IAxiosRetryReturn.requestInterceptorId \in DOMAIN interceptors.request
    /\ IAxiosRetryReturn.responseInterceptorId \in DOMAIN interceptors.response
    /\ Deregistered =>
          /\ config.axiosRetry = override
          /\ config.timeout = originalTimeout
          /\ config.validateStatus = "default"
          /\ config.transformRequest = "default"
          /\ attempts <= 1
          /\ pc \in {"pending", "inflight", "failed", "settled"}
          /\ \A name \in DOMAIN calls : calls[name] = 0
          /\ hook = NoInvocation
          /\ verdict = NoVerdict
          /\ timer = NoTimer
          /\ Rejected => (result.value = error /\ error.id = 1)
          /\ Resolved => (result.value.id = 1 /\ result.value.status \in 200 .. 299)

C29_Witness ==
    /\ Deregistered
    /\ Rejected
    /\ attempts = 1
    /\ error = AxiosError(1, "ERR_BAD_RESPONSE", 500, "get")
    /\ result.value = error
    /\ defaultOptions.retries = MaxRetries
    /\ "retryCondition" \notin DOMAIN defaultOptions

\* C30: retryDelay is invoked once in each step that grants a retry and in no
\* other: in that step retryCount goes up by one and the delay is the one
\* retryDelay gives for the incremented state and the failure at hand, the
\* first retry having retryCount 1; it has been invoked retryCount times at
\* any moment, so k times when a request succeeds after k failures, and a
\* step in which the retry is declined invokes nothing.
C30_RetryDelayPerGrant ==
    /\ [](Stamped => calls.retryDelay = retryCount)
    /\ [](Resolved => calls.retryDelay = attempts - 1)
    /\ [][calls'.retryDelay # calls.retryDelay =>
            /\ calls'.retryDelay = calls.retryDelay + 1
            /\ config'.axiosRetry.retryCount = retryCount + 1
            /\ config'.axiosRetry.retryCount = attempts
            /\ verdict'.value \in {"true", "resolved true", "resolved undefined"}
            /\ delay' \in RetryDelays(config'.axiosRetry, error)]_vars
    /\ [][(verdict' # verdict /\ verdict'.value \in
                {"false", "resolved false", "rejected", "throw", "not asked"}) =>
            /\ calls'.retryDelay = calls.retryDelay
            /\ delay' = delay]_vars

C30_Witness ==
    /\ Resolved
    /\ attempts = 3
    /\ calls.retryDelay = 2
    /\ config.axiosRetry.retryDelay # "noDelay"
    /\ now - StartTime >= 2

lastRequestTime == config.axiosRetry.lastRequestTime

\* C31 as stated: unless shouldResetTimeout is set, lastRequestTime keeps the
\* time the first attempt was dispatched.
C31_Original ==
    (Stamped /\ ~shouldResetTimeout) => lastRequestTime = StartTime

\* C31 amended: lastRequestTime is set to the current time by every dispatch
\* of an attempt, the first and each resubmission, whether shouldResetTimeout
\* is set or not, and by nothing else: it is the time the most recent attempt
\* was dispatched.
C31_LastRequestTime ==
    /\ [][attempts' # attempts => config'.axiosRetry.lastRequestTime = now']_vars
    /\ [][(attempts' = attempts /\ Stamped) =>
            config'.axiosRetry.lastRequestTime = lastRequestTime]_vars

C31_Witness ==
    /\ pc = "inflight"
    /\ attempts = 2
    /\ ~shouldResetTimeout
    /\ originalTimeout # 0
    /\ lastRequestTime = now
    /\ lastRequestTime > StartTime

\* An attempt has been dispatched and the handler is not waiting to resubmit.
Dispatched ==
    pc \in {"inflight", "failed", "retryCondition", "onMaxRetryTimesExceeded"}

C33_SettlesOnce ==
    /\ [](pc = "settled" <=> result.kind # "pending")
    /\ [](pc = "settled" =>
            /\ result.kind \in {"resolved", "rejected"}
            /\ result.value # NoValue
            /\ (result.kind = "resolved" <=> result.value.code = "response")
            /\ timer.status # "pending")
    /\ [][pc = "settled" =>
            /\ pc' = "settled"
            /\ result' = result
            /\ attempts' = attempts
            /\ calls' = calls
            /\ hook' = hook
            /\ config' = config]_vars

C33_Witness ==
    /\ Rejected
    /\ result.value = HookError("onRetry")
    /\ signal = "aborted"
    /\ timer.status = "fired"
    /\ attempts = 2

\* The retry of the failure at hand was declined.
Declined ==
    verdict.value \in {"false", "resolved false", "rejected", "throw", "not asked"}

\* C34: when every attempt settles and every callback returns or settles,
\* the request is eventually settled; and once the retry of a failure has
\* been declined the caller is eventually rejected.
C34_Terminates ==
    /\ <>(pc = "settled")
    /\ Declined ~> Rejected
    /\ [](Declined => pc \in {"onMaxRetryTimesExceeded", "settled"})
    /\ []((Declined /\ pc = "settled") => Rejected)

C34_Witness ==
    /\ Rejected
    /\ verdict.value = "resolved false"
    /\ attempts = 2
    /\ retryCount < retries
    /\ calls.onMaxRetryTimesExceeded = 0

\* The Retry Extension of request i, once the request interceptor has run.
Extension(i) == heap[requests[i].ns]

StampedOf(i) == requests[i].pc # "pending"

\* C35: the Retry Extensions of two requests on one client are distinct
\* objects, neither of them the client-wide options nor the object the caller
\* passed; no step writes to those two shared objects, and a step of one
\* request changes neither the other request nor its Retry Extension, so that
\* each request's retryCount counts its own retries, its lastRequestTime is
\* its own last dispatch, its timeout is reduced by its own attempts only and
\* it is retried within its own budget.
C35_NoSharedState ==
    /\ [](\A i \in RequestIds : StampedOf(i) =>
            /\ requests[i].ns \notin {ClientRef, CallerRef}
            /\ \A j \in RequestIds \ {i} : requests[j].ns # requests[i].ns
            /\ Extension(i).retryCount = requests[i].granted
            /\ requests[i].granted <= Extension(i).retries
            /\ requests[i].attempts <= requests[i].granted + 1
            /\ Extension(i).lastRequestTime = requests[i].dispatched
            /\ requests[i].timeout =
                    IF Extension(i).shouldResetTimeout \/ requests[i].original = 0
                    THEN requests[i].original
                    ELSE requests[i].original - requests[i].spent)
    /\ [][/\ heap'[ClientRef] = heap[ClientRef]
          /\ heap'[CallerRef] = heap[CallerRef]
          /\ \A i \in RequestIds : \A j \in RequestIds \ {i} :
                requests'[i] # requests[i] =>
                    /\ requests'[j] = requests[j]
                    /\ heap'[requests[j].ns] = heap[requests[j].ns]]_vars

C35_Witness ==
    /\ requests["a"].pc = "inflight"
    /\ requests["b"].pc = "inflight"
    /\ requests["a"].attempts = 3
    /\ requests["b"].attempts = 2
    /\ Extension("a").retryCount = 2
    /\ Extension("b").retryCount = 1
    /\ Extension("a").lastRequestTime # Extension("b").lastRequestTime
    /\ requests["a"].timeout # requests["b"].timeout

\* handleRetry ran in this step: a retry was granted.
RetryGranted == calls'.retryDelay # calls.retryDelay

\* C36: the step that grants a retry removes from the config each of agent,
\* httpAgent and httpsAgent that is the very object the client has as its
\* default, and leaves every other agent as it is, one made with the same
\* options included; no other step touches the three fields.
C36_fixConfig ==
    [][\A k \in AgentKeys :
        /\ (RetryGranted /\ config[k].id = axiosDefaults[k].id) => config'[k] = NoAgent
        /\ (RetryGranted /\ config[k].id # axiosDefaults[k].id) => config'[k] = config[k]
        /\ ~RetryGranted => config'[k] = config[k]]_vars

C36_Witness ==
    /\ pc = "inflight"
    /\ attempts = 2
    /\ axiosDefaults.agent = ClientAgent
    /\ axiosDefaults.httpAgent = ClientAgent
    /\ axiosDefaults.httpsAgent = NoAgent
    /\ config.agent = NoAgent
    /\ config.httpAgent = OwnAgent
    /\ config.httpsAgent = OwnAgent

\* C37: the first attempt is dispatched with the caller's transformRequest,
\* every later attempt with the identity, so that the body, serialised by the
\* first dispatch, is the same on every attempt and after it.
C37_TransformRequest ==
    /\ pc = "pending" => config.data = "object"
    /\ Stamped => config.data = "json"
    /\ (attempts = 1 /\ pc \in {"inflight", "failed"}) =>
            config.transformRequest = "default"
    /\ (attempts >= 2 \/ pc \in {"onRetry", "delay"}) =>
            config.transformRequest = "identity"

C37_Witness ==
    /\ pc = "inflight"
    /\ attempts = 3
    /\ config.transformRequest = "identity"
    /\ config.data = "json"

\* C38: under the default retryCondition a failure with code 'ERR_CANCELED' is
\* never granted a retry, whatever the method: the handler neither reaches
\* onRetry nor waits to resubmit with such a failure at hand.
C38_CancelledNeverRetried ==
    (error.code = "ERR_CANCELED"
        /\ config.axiosRetry.retryCondition = "isNetworkOrIdempotentRequestError") =>
        /\ verdict.value # "true"
        /\ pc \notin {"onRetry", "delay"}

\* C39: a granted retry given up because no timeout is left rejects the
\* caller with the failure at hand, in the very step: no attempt is
\* dispatched, no timer is set, neither onRetry nor onMaxRetryTimesExceeded
\* is invoked, and retryCount has been incremented for the retry that was
\* given up, so that it is one more than the resubmissions made.
C39_AbandonedRetry ==
    /\ [](Abandoned =>
            /\ Rejected
            /\ result.value = error
            /\ error.id = attempts
            /\ retryCount = attempts
            /\ calls.onRetry = attempts - 1
            /\ calls.onMaxRetryTimesExceeded = 0
            /\ timer.status # "pending"
            /\ RemainingTimeout(config, config.axiosRetry, now, delay) <= 0)
    /\ [][(Abandoned' /\ ~Abandoned) =>
            /\ attempts' = attempts
            /\ timer' = timer
            /\ hook' = hook
            /\ config'.timeout = config.timeout
            /\ config'.axiosRetry.retryCount = retryCount + 1]_vars

C39_Witness ==
    /\ Abandoned
    /\ retryCount = retries
    /\ retries = 2
    /\ attempts = 2
    /\ calls.onRetry = 1
    /\ result.value.code = "ECONNRESET"

\* C40: a retryCondition that throws rejects the caller with what it threw,
\* not with the failure; a retryCondition whose promise rejects rejects the
\* caller with the failure.  Either way it was consulted within the budget,
\* and no retry follows, no delay is computed and neither onRetry nor
\* onMaxRetryTimesExceeded is invoked for that failure.
C40_ConditionThrows ==
    /\ verdict.value = "throw" =>
            /\ Rejected
            /\ result.value = HookError("retryCondition")
            /\ result.value # error
    /\ verdict.value = "rejected" =>
            /\ Rejected
            /\ result.value = error
    /\ verdict.value \in {"throw", "rejected"} =>
            /\ verdict.at = error.id
            /\ error.id = attempts
            /\ verdict.retryCount < retries
            /\ retryCount = verdict.retryCount
            /\ calls.retryDelay = retryCount
            /\ calls.onRetry = retryCount
            /\ calls.onMaxRetryTimesExceeded = 0
            /\ hook = NoInvocation
            /\ timer.status # "pending"

C40_Witness ==
    /\ Rejected
    /\ verdict.value = "throw"
    /\ attempts = 2
    /\ retries = 2
    /\ result.value = HookError("retryCondition")
    /\ error.code = "ECONNRESET"

====
